---- MODULE Spec2Model ----
(***************************************************************************)
(* A model of mentat's patch application (code_file_manager.py) and diff   *)
(* annotation (diff_context.py).                                           *)
(*                                                                         *)
(* Three specifications share the module:                                  *)
(*   SpecApply  _get_new_code_lines from the empty-list check after        *)
(*              conflict resolution to its return, one loop iteration per  *)
(*              step, on a file whose disk content equals the cache;       *)
(*   Spec       write_changes_to_files on a batch of code changes, one     *)
(*              step per directive of the first loop and per file group    *)
(*              of the second;                                             *)
(*   SpecDiff   _parse_diff followed by _annotate_file_message.            *)
(*                                                                         *)
(* Line numbers of a CodeChange are kept in HALF-LINE units: the field     *)
(* first_changed_line holds twice the Python value, so that an insertion   *)
(* between lines k and k+1 (Python value k + 0.5) is the integer 2k+1 and  *)
(* a Replace/Delete of line s is 2s.                                       *)
(***************************************************************************)
EXTENDS Integers, Sequences, FiniteSets, TLC

\* ------------------------------------------------------------------ bounds
MaxLen == 2        \* longest cached file, in lines
MaxChanges == 3    \* most Insert/Replace/Delete changes passed to one call
MaxBatch == 3      \* most code changes in one batch
MaxOps == 5        \* longest edit script a diff is made from
MaxLine == MaxLen + 1   \* highest line number a change may address

VARIABLES
    \* --- _get_new_code_lines, stepwise (SpecApply)
    a_pc,               \* "call" | "loop" | "returned" | "raised"
    a_file_lines,       \* self.file_lines[rel_path] at the call
    changes,            \* the local list `changes`
    a_i,                \* index of the loop's next change (1-based)
    new_code_lines,     \* the local buffer
    min_changed_line,   \* the local guard value, in half-line units
    a_padded,           \* the buffer right after tail padding (history)
    \* --- write_changes_to_files (Spec)
    files,              \* code_context.files: the tracked paths
    disk,               \* the file system: path -> [exists, lines]
    file_lines,         \* self.file_lines: path -> [cached, lines]
    code_changes,       \* the argument: the batch of code changes
    w_pc,               \* "first" | "second" | "done" | "error"
    w_i,                \* index of the first loop's next code change
    file_changes,       \* the defaultdict, as a list of [path, changes] in key order
    w_g,                \* index of the second loop's next item
    w_error,            \* the exception that ended the call, "" when none
    prompts,            \* history: the ask_yes_no calls, [about, file, answer]
    w_events,           \* history: removals and overwrites of differing disk content
    w_last,             \* history: what the last step handled
    w_writes,           \* history: path -> number of writes by the second loop
    w_dropped,          \* history: conflict resolution has dropped a change
    disk0,              \* history: the file system at the call
    \* --- _parse_diff and _annotate_file_message (SpecDiff)
    d_pc,               \* "parse" | "annotate" | "done" | "error"
    d_ops,              \* ground truth: the edit script the diff was made from
    d_ctx,              \* ground truth: the context lines the diff was made with
    d_stray,            \* ground truth: "" or the sign of a line put before the first hunk
    diff,               \* the argument of _parse_diff, as its lines
    annotations,        \* what _parse_diff returned
    code_message,       \* the numbered listing passed to _annotate_file_message
    d_k,                \* index of the next annotation (1-based)
    active_index,       \* the cursor of _annotate_file_message
    annotated_message   \* its output so far

varsW == <<files, disk, file_lines, code_changes, w_pc, w_i, file_changes, w_g,
           w_error, prompts, w_events, w_last, w_writes, w_dropped, disk0>>

varsA == <<a_pc, a_file_lines, changes, a_i, new_code_lines, min_changed_line, a_padded>>

varsD == <<d_pc, d_ops, d_ctx, d_stray, diff, annotations, code_message, d_k, active_index,
           annotated_message>>

vars == <<varsA, varsW, varsD>>

\* ------------------------------------------------------------ Python lists
Min(a, b) == IF a < b THEN a ELSE b
Max(a, b) == IF a > b THEN a ELSE b

\* lst[:n] for n >= 0
PyTake(lst, n) == SubSeq(lst, 1, Min(n, Len(lst)))
\* lst[n:] for n >= 0
PyDrop(lst, n) == SubSeq(lst, Min(n, Len(lst)) + 1, Len(lst))
\* [""] * n
EmptyLines(n) == [i \in 1..n |-> ""]

RECURSIVE Flatten(_)
Flatten(ss) == IF ss = <<>> THEN <<>> ELSE Head(ss) \o Flatten(Tail(ss))

\* ---------------------------------------------------------------- CodeChange
\* math.floor / math.ceil of a value held in half-line units
Floor2(h) == h \div 2
Ceil2(h) == (h + 1) \div 2

\* CodeChange of an "insert" block: insert-after-line k, insert-before-line k+1
InsertChange(f, k, code) ==
    [action |-> "Insert", file |-> f, first_changed_line |-> 2 * k + 1,
     last_changed_line |-> 2 * k + 1, code_lines |-> code, name |-> ""]
\* CodeChange of a "replace" block: start-line s, end-line e
ReplaceChange(f, s, e, code) ==
    [action |-> "Replace", file |-> f, first_changed_line |-> 2 * s,
     last_changed_line |-> 2 * e, code_lines |-> code, name |-> ""]
\* CodeChange of a "delete" block: start-line s, end-line e
DeleteChange(f, s, e) ==
    [action |-> "Delete", file |-> f, first_changed_line |-> 2 * s,
     last_changed_line |-> 2 * e, code_lines |-> <<>>, name |-> ""]
\* CodeChange of a "create-file" block
CreateFileChange(f, code) ==
    [action |-> "CreateFile", file |-> f, first_changed_line |-> 0,
     last_changed_line |-> 0, code_lines |-> code, name |-> ""]
\* CodeChange of a "delete-file" block
DeleteFileChange(f) ==
    [action |-> "DeleteFile", file |-> f, first_changed_line |-> 0,
     last_changed_line |-> 0, code_lines |-> <<>>, name |-> ""]
\* CodeChange of a "rename-file" block
RenameFileChange(f, new_name) ==
    [action |-> "RenameFile", file |-> f, first_changed_line |-> 0,
     last_changed_line |-> 0, code_lines |-> <<>>, name |-> new_name]

\* CodeChange.apply: splice code_lines into the buffer at the change's range
ChangeApply(change, cur_file_lines) ==
    IF change.action = "Insert"
    THEN PyTake(cur_file_lines, Floor2(change.first_changed_line))
         \o change.code_lines
         \o PyDrop(cur_file_lines, Floor2(change.first_changed_line))
    ELSE PyTake(cur_file_lines, Floor2(change.first_changed_line) - 1)
         \o (IF change.action = "Replace" THEN change.code_lines ELSE <<>>)
         \o PyDrop(cur_file_lines, Floor2(change.last_changed_line))

\* CodeChange.__lt__: position order
ChangeLt(c1, c2) == c1.last_changed_line < c2.last_changed_line

\* ---------------------------------------------------- _get_new_code_lines
\* sorted(changes, reverse=True): stable, descending by ChangeLt
RECURSIVE InsertSorted(_, _)
InsertSorted(c, lst) ==
    IF lst = <<>> THEN <<c>>
    ELSE IF ChangeLt(Head(lst), c) THEN <<c>> \o lst
    ELSE <<Head(lst)>> \o InsertSorted(c, Tail(lst))

RECURSIVE SortedReverse(_)
SortedReverse(lst) ==
    IF lst = <<>> THEN <<>>
    ELSE InsertSorted(lst[Len(lst)], SortedReverse(SubSeq(lst, 1, Len(lst) - 1)))

\* The three conflict-resolution passes, as one external collaborator: it
\* returns the changes it keeps, in order.  `keep` is the set of positions of
\* the sorted list that survive.
RECURSIVE KeepOnly(_, _, _)
KeepOnly(lst, keep, i) ==
    IF i > Len(lst) THEN <<>>
    ELSE (IF i \in keep THEN <<lst[i]>> ELSE <<>>) \o KeepOnly(lst, keep, i + 1)

ResolveConflicts(lst, keep) == KeepOnly(lst, keep, 1)

LargestChangedLineFloor(chs) == Floor2(chs[1].last_changed_line)

\* largest_changed_line = math.ceil(changes[0].last_changed_line)
LargestChangedLine(chs) == Ceil2(chs[1].last_changed_line)

PadTailNever(lines, chs) == lines

PadTailOneMore(lines, chs) ==
    lines \o EmptyLines(Max(0, LargestChangedLine(chs) - Len(lines)))

\* Tail padding: extend the buffer with "" up to largest_changed_line - 1
PadTail(lines, chs) ==
    LET last_line == Len(lines) + 1
        largest_changed_line == LargestChangedLine(chs)
    IN  IF largest_changed_line > last_line
        THEN lines \o EmptyLines(largest_changed_line - last_line)
        ELSE lines

OverlapsStrict(change, min_line) == change.last_changed_line > min_line

\* The overlap guard of the loop: change.last_changed_line >= min_changed_line
Overlaps(change, min_line) == change.last_changed_line >= min_line

\* The loop from iteration i on: "raise" or the final buffer
RECURSIVE ApplyLoop(_, _, _, _)
ApplyLoop(chs, i, lines, min_line) ==
    IF i > Len(chs) THEN [raised |-> FALSE, lines |-> lines]
    ELSE IF Overlaps(chs[i], min_line) THEN [raised |-> TRUE, lines |-> lines]
    ELSE ApplyLoop(chs, i + 1, ChangeApply(chs[i], lines), chs[i].first_changed_line)

\* ------------------------------------------------- files, cache, registry
Paths == {"f", "g"}
NoFile == [exists |-> FALSE, lines |-> <<>>]
OnDisk(lines) == [exists |-> TRUE, lines |-> lines]
NoEntry == [cached |-> FALSE, lines |-> <<>>]
Cached(lines) == [cached |-> TRUE, lines |-> lines]

\* What _read_file returns after f.write("\n".join(lines)): the text split
\* at "\n" again, which is never the empty list
WrittenLines(lines) == IF lines = <<>> THEN <<"">> ELSE lines

\* No diff is being annotated
IdleDiff ==
    /\ d_pc = "idle"
    /\ d_ops = <<>>
    /\ d_ctx = 0
    /\ d_stray = ""
    /\ diff = <<>>
    /\ annotations = <<>>
    /\ code_message = <<>>
    /\ d_k = 0
    /\ active_index = 0
    /\ annotated_message = <<>>

\* The state of the variables of write_changes_to_files outside a call
IdleWrite ==
    /\ files = {}
    /\ disk = [p \in Paths |-> NoFile]
    /\ file_lines = [p \in Paths |-> NoEntry]
    /\ code_changes = <<>>
    /\ w_pc = "idle"
    /\ w_i = 0
    /\ file_changes = <<>>
    /\ w_g = 0
    /\ w_error = ""
    /\ prompts = <<>>
    /\ w_events = {}
    /\ w_last = [kind |-> "none"]
    /\ w_writes = [p \in Paths |-> 0]
    /\ w_dropped = FALSE
    /\ disk0 = [p \in Paths |-> NoFile]

\* ------------------------------------------------------- inputs (SpecApply)
OriginalLines == <<"a", "b", "c", "d", "e", "f">>
Buffers == {SubSeq(OriginalLines, 1, n) : n \in 1..MaxLen}

InsertCodes == {<<"x">>, <<"x", "w">>}
ReplaceCode == <<"y", "z">>

\* Every change the model may pass, as a list ordered by ascending position
CatalogueAt(k) ==
    (IF k = 0 THEN <<>> ELSE
        Flatten([s \in 1..k |-> <<ReplaceChange("f", s, k, ReplaceCode),
                                  DeleteChange("f", s, k)>>]))
    \o <<InsertChange("f", k, <<"x">>), InsertChange("f", k, <<"x", "w">>)>>
Catalogue == Flatten([j \in 1..(MaxLine + 1) |-> CatalogueAt(j - 1)])

\* Strictly increasing index tuples of at most n entries
RECURSIVE IncTuples(_, _)
IncTuples(n, top) ==
    IF n = 0 THEN {<<>>}
    ELSE LET prev == IncTuples(n - 1, top)
         IN  prev \cup UNION {
                 {Append(t, i) : i \in (IF t = <<>> THEN 1 ELSE t[Len(t)] + 1)..top} :
                 t \in {p \in prev : Len(p) = n - 1}}
\* The lists of changes a call may receive: distinct changes of the catalogue,
\* in catalogue order (ascending position, so the sort has work to do)
ChangeLists ==
    {[j \in 1..Len(t) |-> Catalogue[t[j]]] : t \in IncTuples(MaxChanges, Len(Catalogue))}

\* ------------------------------------------------------------- SpecApply
\* State at the call of _get_new_code_lines(rel_path, changes); the file on
\* disk equals the cached lines, so the staleness branch is not taken here.
IdleApply ==
    /\ a_pc = "idle"
    /\ a_file_lines = <<>>
    /\ changes = <<>>
    /\ a_i = 0
    /\ new_code_lines = <<>>
    /\ min_changed_line = 0
    /\ a_padded = <<>>

InitApply ==
    /\ IdleWrite
    /\ IdleDiff
    /\ a_pc = "call"
    /\ a_file_lines \in Buffers
    /\ changes \in ChangeLists
    /\ a_i = 0
    /\ new_code_lines = <<>>
    /\ min_changed_line = 0
    /\ a_padded = <<>>

\* Lines 152-153: an empty argument returns [] at once
A_ReturnEmptyArg ==
    /\ UNCHANGED <<varsW, varsD>>
    /\ a_pc = "call"
    /\ changes = <<>>
    /\ a_pc' = "returned"
    /\ new_code_lines' = <<>>
    /\ UNCHANGED <<a_file_lines, changes, a_i, min_changed_line, a_padded>>

\* Lines 157-166: sort, resolve, and return [] when nothing is left
A_ReturnEmptyResolved ==
    /\ UNCHANGED <<varsW, varsD>>
    /\ a_pc = "call"
    /\ changes # <<>>
    /\ \E keep \in SUBSET (1..Len(changes)) :
          /\ ResolveConflicts(SortedReverse(changes), keep) = <<>>
          /\ changes' = <<>>
    /\ a_pc' = "returned"
    /\ new_code_lines' = <<>>
    /\ UNCHANGED <<a_file_lines, a_i, min_changed_line, a_padded>>

\* Lines 157-186: sort, resolve, copy the cached lines, pad the tail and
\* set the guard to one past the highest boundary
A_Begin ==
    /\ UNCHANGED <<varsW, varsD>>
    /\ a_pc = "call"
    /\ changes # <<>>
    /\ \E keep \in SUBSET (1..Len(changes)) :
          LET resolved == ResolveConflicts(SortedReverse(changes), keep)
          IN  /\ resolved # <<>>
              /\ changes' = resolved
              /\ new_code_lines' = PadTail(a_file_lines, resolved)
              /\ a_padded' = PadTail(a_file_lines, resolved)
              /\ min_changed_line' = 2 * (LargestChangedLine(resolved) + 1)
    /\ a_pc' = "loop"
    /\ a_i' = 1
    /\ UNCHANGED a_file_lines

\* Lines 188-189: the next change overlaps the one applied before it
A_Raise ==
    /\ UNCHANGED <<varsW, varsD>>
    /\ a_pc = "loop"
    /\ a_i <= Len(changes)
    /\ Overlaps(changes[a_i], min_changed_line)
    /\ a_pc' = "raised"
    /\ UNCHANGED <<a_file_lines, changes, a_i, new_code_lines, min_changed_line, a_padded>>

\* Lines 190-191: apply the next change
A_Step ==
    /\ UNCHANGED <<varsW, varsD>>
    /\ a_pc = "loop"
    /\ a_i <= Len(changes)
    /\ ~Overlaps(changes[a_i], min_changed_line)
    /\ min_changed_line' = changes[a_i].first_changed_line
    /\ new_code_lines' = ChangeApply(changes[a_i], new_code_lines)
    /\ a_i' = a_i + 1
    /\ UNCHANGED <<a_pc, a_file_lines, changes, a_padded>>

\* Line 192: return the buffer
A_Return ==
    /\ UNCHANGED <<varsW, varsD>>
    /\ a_pc = "loop"
    /\ a_i > Len(changes)
    /\ a_pc' = "returned"
    /\ UNCHANGED <<a_file_lines, changes, a_i, new_code_lines, min_changed_line, a_padded>>

NextApply ==
    \/ A_ReturnEmptyArg
    \/ A_ReturnEmptyResolved
    \/ A_Begin
    \/ A_Raise
    \/ A_Step
    \/ A_Return

SpecApply == InitApply /\ [][NextApply]_vars

\* ------------------------------------------------ write_changes_to_files
\* The cached snapshot of each path, as _read_all_file_lines took it
Snapshot == [p \in Paths |-> IF p = "f" THEN <<"a", "b">> ELSE <<"c">>]
\* What the file may hold by now when it was edited since the snapshot
EditedSince(p) == Snapshot[p] \o <<"q">>

BatchCatalogue ==
    { CreateFileChange("g", <<"x">>),
      DeleteFileChange("f"),
      RenameFileChange("f", "g"),
      RenameFileChange("f", "f"),
      InsertChange("f", 1, <<"x">>),
      DeleteChange("f", 1, 2),
      ReplaceChange("f", 2, 2, ReplaceCode),
      InsertChange("g", 0, <<"w">>) }
Batches == UNION {[1..n -> BatchCatalogue] : n \in 0..MaxBatch}

\* At the call: the cache holds the snapshot of exactly the tracked files;
\* f is tracked, g may be; the disk may have moved on since the snapshot.
Init ==
    /\ IdleApply
    /\ IdleDiff
    /\ files \in {{"f"}, {"f", "g"}}
    /\ file_lines = [p \in Paths |-> IF p \in files THEN Cached(Snapshot[p]) ELSE NoEntry]
    /\ disk \in [Paths -> {NoFile} \cup {OnDisk(Snapshot[p]) : p \in Paths}
                                   \cup {OnDisk(EditedSince(p)) : p \in Paths}]
    /\ disk["f"] \in {NoFile, OnDisk(Snapshot["f"]), OnDisk(EditedSince("f"))}
    /\ disk["g"] \in (IF "g" \in files
                      THEN {OnDisk(Snapshot["g"]), OnDisk(EditedSince("g"))}
                      ELSE {NoFile, OnDisk(Snapshot["g"])})
    /\ code_changes \in Batches
    /\ w_pc = "first"
    /\ w_i = 1
    /\ file_changes = <<>>
    /\ w_g = 1
    /\ w_error = ""
    /\ prompts = <<>>
    /\ w_events = {}
    /\ w_last = [kind |-> "none"]
    /\ w_writes = [p \in Paths |-> 0]
    /\ w_dropped = FALSE
    /\ disk0 = disk

\* --- the defaultdict file_changes, as a list of items in key order
FcHas(fc, p) == \E j \in 1..Len(fc) : fc[j].path = p
FcIndex(fc, p) == CHOOSE j \in 1..Len(fc) : fc[j].path = p
\* file_changes[p]: the access itself creates the key
FcTouch(fc, p) == IF FcHas(fc, p) THEN fc ELSE Append(fc, [path |-> p, changes |-> <<>>])
FcGet(fc, p) == IF FcHas(fc, p) THEN fc[FcIndex(fc, p)].changes ELSE <<>>
FcSet(fc, p, chs) ==
    LET t == FcTouch(fc, p)
    IN  [t EXCEPT ![FcIndex(t, p)].changes = chs]


\* Lines 214-215: file_changes[name] += file_changes[rel_path];
\* file_changes[rel_path] = []
Rehome(fc, old, new) ==
    LET t == FcTouch(FcTouch(fc, new), old)
    IN  FcSet(FcSet(t, new, FcGet(t, new) \o FcGet(t, old)), old, <<>>)

\* --- history helpers
Pre == [files |-> files, disk |-> disk, file_lines |-> file_lines, asked |-> Len(prompts)]
Confirmed(ps, p) == \E j \in 1..Len(ps) : ps[j].file = p /\ ps[j].answer
Differs(p) == disk[p].exists /\ (~file_lines[p].cached \/ file_lines[p].lines # disk[p].lines)

PathExistsAlways(d, p) == TRUE

\* Line 138: abs_path.exists()
PathExists(d, p) == d[p].exists

DeleteAlways(answer) == TRUE

\* Line 143: the file is deleted when ask_yes_no(default_yes=False) says yes
DeleteGranted(answer) == answer

StaleNever(cached, ondisk) == FALSE

\* Line 169: the cached lines differ from a fresh read of the file
IsStale(cached, ondisk) == cached # ondisk

\* Lines 149-192 as a whole, for the item (p, chs) of the second loop, with
\* the resolver keeping the positions `keep` and the staleness prompt (if it
\* is issued) answered `answer`
GetNewCodeLines(p, chs, keep, answer) ==
    LET resolved == ResolveConflicts(SortedReverse(chs), keep)
        quiet == [kind |-> "lines", lines |-> <<>>, prompted |-> FALSE, resolved |-> resolved]
    IN  IF chs = <<>> THEN [quiet EXCEPT !.resolved = <<>>]
        ELSE IF Cardinality({chs[j].file : j \in 1..Len(chs)}) > 1
        THEN [quiet EXCEPT !.kind = "SameFileException", !.resolved = <<>>]
        ELSE IF resolved = <<>> THEN quiet
        ELSE IF ~file_lines[p].cached THEN [quiet EXCEPT !.kind = "KeyError"]
        ELSE IF ~disk[p].exists THEN [quiet EXCEPT !.kind = "FileNotFoundError"]
        ELSE LET stale == IsStale(file_lines[p].lines, disk[p].lines)
             IN  IF stale /\ ~answer
                 THEN [quiet EXCEPT !.kind = "none", !.prompted = TRUE]
                 ELSE LET padded == PadTail(file_lines[p].lines, resolved)
                          r == ApplyLoop(resolved, 1, padded,
                                         2 * (LargestChangedLine(resolved) + 1))
                      IN  IF r.raised
                          THEN [quiet EXCEPT !.kind = "OverlapError", !.prompted = stale]
                          ELSE [quiet EXCEPT !.lines = r.lines, !.prompted = stale]

RaiseSkipsGroup(g) == [pc |-> "second", g |-> g + 1]

\* An exception raised in the second loop leaves write_changes_to_files:
\* nothing around lines 222-231 catches it
RaiseInGroup(g) == [pc |-> "error", g |-> g]

\* --- first loop, lines 196-220
AtChange == w_pc = "first" /\ w_i <= Len(code_changes)
Cur == code_changes[w_i]

\* Lines 200-204: CreateFile
W_CreateFile ==
    /\ UNCHANGED <<varsA, varsD>>
    /\ AtChange /\ Cur.action = "CreateFile"
    /\ files' = files \cup {Cur.file}
    /\ disk' = [disk EXCEPT ![Cur.file] = OnDisk(WrittenLines(Cur.code_lines))]
    /\ w_events' = w_events \cup
         (IF Differs(Cur.file)
          THEN {[op |-> "overwrite", file |-> Cur.file, kind |-> "CreateFile",
                 confirmed |-> Confirmed(prompts, Cur.file)]}
          ELSE {})
    /\ w_last' = [kind |-> "CreateFile", file |-> Cur.file, outcome |-> "created", pre |-> Pre]
    /\ w_i' = w_i + 1
    /\ UNCHANGED <<file_lines, code_changes, w_pc, file_changes, w_g, w_error,
                   prompts, w_writes, w_dropped, disk0>>

\* Lines 138-140: DeleteFile of a path that does not exist
W_DeleteMissing ==
    /\ UNCHANGED <<varsA, varsD>>
    /\ AtChange /\ Cur.action = "DeleteFile"
    /\ ~PathExists(disk, Cur.file)
    /\ w_last' = [kind |-> "DeleteFile", file |-> Cur.file, outcome |-> "missing", pre |-> Pre]
    /\ w_i' = w_i + 1
    /\ UNCHANGED <<files, disk, file_lines, code_changes, w_pc, file_changes, w_g,
                   w_error, prompts, w_events, w_writes, w_dropped, disk0>>

\* Lines 142-147 and 130-134: DeleteFile of an existing path, after the prompt
W_DeleteAsk ==
    /\ UNCHANGED <<varsA, varsD>>
    /\ AtChange /\ Cur.action = "DeleteFile"
    /\ PathExists(disk, Cur.file)
    /\ \E answer \in BOOLEAN :
         /\ prompts' = Append(prompts, [about |-> "delete", file |-> Cur.file,
                                        default_yes |-> FALSE, answer |-> answer])
         /\ IF DeleteGranted(answer)
            THEN /\ files' = files \ {Cur.file}
                 /\ disk' = [disk EXCEPT ![Cur.file] = NoFile]
                 /\ w_events' = w_events \cup
                      {[op |-> "remove", file |-> Cur.file, kind |-> "DeleteFile",
                        confirmed |-> Confirmed(prompts', Cur.file)]}
                 /\ w_last' = [kind |-> "DeleteFile", file |-> Cur.file,
                               outcome |-> "deleted", pre |-> Pre]
            ELSE /\ UNCHANGED <<files, disk, w_events>>
                 /\ w_last' = [kind |-> "DeleteFile", file |-> Cur.file,
                               outcome |-> "declined", pre |-> Pre]
    /\ w_i' = w_i + 1
    /\ UNCHANGED <<file_lines, code_changes, w_pc, file_changes, w_g, w_error,
                   w_writes, w_dropped, disk0>>

\* Lines 208-218, step by step: _add_file(new); code_lines = file_lines[old]
\* (KeyError without a buffer); the new path is written; _delete_file(old)
\* untracks old and unlinks it (FileNotFoundError when it is not on disk);
\* the new path is read again (FileNotFoundError when old = new, which was
\* just unlinked)
RenameSteps(old, new) ==
    LET files1 == files \cup {new}
        disk1 == [disk EXCEPT ![new] = OnDisk(WrittenLines(file_lines[old].lines))]
        files2 == files1 \ {old}
        disk2 == [disk1 EXCEPT ![old] = NoFile]
    IN  IF ~file_lines[old].cached
        THEN [err |-> "KeyError", files |-> files1, disk |-> disk,
              file_lines |-> file_lines, wrote |-> FALSE, removed |-> FALSE]
        ELSE IF ~disk1[old].exists
        THEN [err |-> "FileNotFoundError", files |-> files2, disk |-> disk1,
              file_lines |-> file_lines, wrote |-> TRUE, removed |-> FALSE]
        ELSE IF ~disk2[new].exists
        THEN [err |-> "FileNotFoundError", files |-> files2, disk |-> disk2,
              file_lines |-> file_lines, wrote |-> TRUE, removed |-> TRUE]
        ELSE [err |-> "", files |-> files2, disk |-> disk2,
              file_lines |-> [file_lines EXCEPT ![new] = Cached(disk2[new].lines)],
              wrote |-> TRUE, removed |-> TRUE]

\* What a RenameFile removed and overwrote, with the confirmations it had
RenameEvents(r) ==
    (IF r.removed
     THEN {[op |-> "remove", file |-> Cur.file, kind |-> "RenameFile",
            confirmed |-> Confirmed(prompts, Cur.file)]}
     ELSE {})
    \cup (IF r.wrote /\ Differs(Cur.name)
          THEN {[op |-> "overwrite", file |-> Cur.name, kind |-> "RenameFile",
                 confirmed |-> Confirmed(prompts, Cur.name)]}
          ELSE {})

\* Lines 207-218: RenameFile
W_RenameFile ==
    /\ UNCHANGED <<varsA, varsD>>
    /\ AtChange /\ Cur.action = "RenameFile"
    /\ LET r == RenameSteps(Cur.file, Cur.name)
       IN  /\ r.err = ""
           /\ files' = r.files
           /\ disk' = r.disk
           /\ file_lines' = r.file_lines
           /\ w_events' = w_events \cup RenameEvents(r)
    /\ file_changes' = Rehome(file_changes, Cur.file, Cur.name)
    /\ w_last' = [kind |-> "RenameFile", file |-> Cur.file, outcome |-> "renamed", pre |-> Pre]
    /\ w_i' = w_i + 1
    /\ UNCHANGED <<code_changes, w_pc, w_g, w_error, prompts, w_writes, w_dropped, disk0>>

\* Lines 208-218: RenameFile that raises: KeyError at file_lines[rel_path]
\* (line 210), FileNotFoundError at unlink (line 134) or at the read of the
\* new path (line 216)
W_RenameRaises ==
    /\ UNCHANGED <<varsA, varsD>>
    /\ AtChange /\ Cur.action = "RenameFile"
    /\ LET r == RenameSteps(Cur.file, Cur.name)
       IN  /\ r.err # ""
           /\ files' = r.files
           /\ disk' = r.disk
           /\ w_error' = r.err
           /\ w_events' = w_events \cup RenameEvents(r)
           \* a raise at line 216 comes after the re-homing of lines 214-215
           /\ file_changes' = IF r.removed
                               THEN Rehome(file_changes, Cur.file, Cur.name)
                               ELSE file_changes
    /\ w_pc' = "error"
    /\ w_last' = [kind |-> "RenameFile", file |-> Cur.file, outcome |-> w_error', pre |-> Pre]
    /\ UNCHANGED <<file_lines, code_changes, w_i, w_g, prompts, w_writes, w_dropped, disk0>>

\* Lines 219-220: Insert, Replace and Delete are queued under their file
W_Queue ==
    /\ UNCHANGED <<varsA, varsD>>
    /\ AtChange /\ Cur.action \in {"Insert", "Replace", "Delete"}
    /\ file_changes' = FcSet(file_changes, Cur.file, Append(FcGet(file_changes, Cur.file), Cur))
    /\ w_last' = [kind |-> "queue", file |-> Cur.file, outcome |-> "queued", pre |-> Pre]
    /\ w_i' = w_i + 1
    /\ UNCHANGED <<files, disk, file_lines, code_changes, w_pc, w_g, w_error, prompts,
                   w_events, w_writes, w_dropped, disk0>>

\* Line 222: the first loop is over
W_EndFirst ==
    /\ UNCHANGED <<varsA, varsD>>
    /\ w_pc = "first" /\ w_i > Len(code_changes)
    /\ w_pc' = "second"
    /\ UNCHANGED <<files, disk, file_lines, code_changes, w_i, file_changes, w_g, w_error,
                   prompts, w_events, w_last, w_writes, w_dropped, disk0>>

\* --- second loop, lines 222-231
TruthyAlways(lines) == TRUE

\* Line 225: `if new_code_lines:` for a list
Truthy(lines) == lines # <<>>

AtGroup == w_pc = "second" /\ w_g <= Len(file_changes)
Group == file_changes[w_g]
Asked(r, answer) ==
    IF r.prompted
    THEN Append(prompts, [about |-> "stale", file |-> Group.path,
                          default_yes |-> FALSE, answer |-> answer])
    ELSE prompts
Dropped(r) == w_dropped \/ (r.resolved # <<>> /\ Len(r.resolved) < Len(Group.changes))
                        \/ (r.resolved = <<>> /\ r.kind = "lines" /\ Group.changes # <<>>)
GroupLast(r, outcome) ==
    [kind |-> "group", file |-> Group.path, outcome |-> outcome, pre |-> Pre,
     changes |-> Group.changes, resolved |-> r.resolved, prompted |-> r.prompted,
     tracked |-> Group.path \in files]

\* Lines 224-225: the applicator returns [] or None; nothing is written
W_GroupSkip ==
    /\ UNCHANGED <<varsA, varsD>>
    /\ AtGroup
    /\ \E keep \in SUBSET (1..Len(Group.changes)), answer \in BOOLEAN :
         LET r == GetNewCodeLines(Group.path, Group.changes, keep, answer)
         IN  /\ r.kind = "none" \/ (r.kind = "lines" /\ ~Truthy(r.lines))
             /\ prompts' = Asked(r, answer)
             /\ w_last' = GroupLast(r, IF r.kind = "none" THEN "aborted" ELSE "empty")
             /\ w_dropped' = Dropped(r)
    /\ w_g' = w_g + 1
    /\ UNCHANGED <<files, disk, file_lines, code_changes, w_pc, w_i, file_changes, w_error,
                   w_events, w_writes, disk0>>

\* Lines 225-231: a non-empty result for a tracked file is written
W_GroupWrite ==
    /\ UNCHANGED <<varsA, varsD>>
    /\ AtGroup
    /\ \E keep \in SUBSET (1..Len(Group.changes)), answer \in BOOLEAN :
         LET r == GetNewCodeLines(Group.path, Group.changes, keep, answer)
         IN  /\ r.kind = "lines" /\ Truthy(r.lines)
             /\ Group.path \in files
             /\ prompts' = Asked(r, answer)
             /\ disk' = [disk EXCEPT ![Group.path] = OnDisk(WrittenLines(r.lines))]
             /\ w_events' = w_events \cup
                  (IF Differs(Group.path)
                   THEN {[op |-> "overwrite", file |-> Group.path, kind |-> "group",
                          confirmed |-> Confirmed(prompts', Group.path)]}
                   ELSE {})
             /\ w_last' = GroupLast(r, "written")
             /\ w_dropped' = Dropped(r)
    /\ w_writes' = [w_writes EXCEPT ![Group.path] = @ + 1]
    /\ w_g' = w_g + 1
    /\ UNCHANGED <<files, file_lines, code_changes, w_pc, w_i, file_changes, w_error, disk0>>

\* Lines 224-229: the applicator raises, or the file is not in context
W_GroupRaises ==
    /\ UNCHANGED <<varsA, varsD>>
    /\ AtGroup
    /\ \E keep \in SUBSET (1..Len(Group.changes)), answer \in BOOLEAN :
         LET r == GetNewCodeLines(Group.path, Group.changes, keep, answer)
             err == IF r.kind = "lines" THEN "NotInContext" ELSE r.kind
         IN  /\ r.kind # "none"
             /\ r.kind = "lines" => (Truthy(r.lines) /\ Group.path \notin files)
             /\ prompts' = Asked(r, answer)
             /\ w_error' = err
             /\ w_last' = GroupLast(r, err)
             /\ w_dropped' = Dropped(r)
    /\ w_pc' = RaiseInGroup(w_g).pc
    /\ w_g' = RaiseInGroup(w_g).g
    /\ UNCHANGED <<files, disk, file_lines, code_changes, w_i, file_changes, w_events,
                   w_writes, disk0>>

\* The second loop is over: the call returns
W_Done ==
    /\ UNCHANGED <<varsA, varsD>>
    /\ w_pc = "second" /\ w_g > Len(file_changes)
    /\ w_pc' = "done"
    /\ UNCHANGED <<files, disk, file_lines, code_changes, w_i, file_changes, w_g, w_error,
                   prompts, w_events, w_last, w_writes, w_dropped, disk0>>

Next ==
    \/ W_CreateFile
    \/ W_DeleteMissing
    \/ W_DeleteAsk
    \/ W_RenameFile
    \/ W_RenameRaises
    \/ W_Queue
    \/ W_EndFirst
    \/ W_GroupSkip
    \/ W_GroupWrite
    \/ W_GroupRaises
    \/ W_Done

Spec == Init /\ [][Next]_vars

\* ----------------------------------------------------------- Python strings
\* A string is the list of its characters
StartsWith(str, prefix) ==
    Len(str) >= Len(prefix) /\ SubSeq(str, 1, Len(prefix)) = prefix
PySliceFromTop(lst, a, b) == SubSeq(lst, 1, Min(b, Len(lst)))

\* lst[a:b] for 0 <= a
PySlice(lst, a, b) == SubSeq(lst, a + 1, Min(b, Len(lst)))
Contains(str, ch) == \E i \in 1..Len(str) : str[i] = ch

\* str.split(sep) for a one-character sep
RECURSIVE SplitAt(_, _, _)
SplitAt(str, sep, cur) ==
    IF str = <<>> THEN <<cur>>
    ELSE IF Head(str) = sep THEN <<cur>> \o SplitAt(Tail(str), sep, <<>>)
    ELSE SplitAt(Tail(str), sep, Append(cur, Head(str)))
Split(str, sep) == SplitAt(str, sep, <<>>)

DigitChars == <<"0", "1", "2", "3", "4", "5", "6", "7", "8", "9">>
DigitValue(ch) == (CHOOSE i \in 1..10 : DigitChars[i] = ch) - 1
\* int(str) of a decimal numeral
RECURSIVE IntOf(_)
IntOf(str) ==
    IF str = <<>> THEN 0
    ELSE 10 * IntOf(SubSeq(str, 1, Len(str) - 1)) + DigitValue(str[Len(str)])
\* str(n) for n >= 0
RECURSIVE StrOf(_)
StrOf(n) == IF n < 10 THEN <<DigitChars[n + 1]>>
            ELSE StrOf(n \div 10) \o <<DigitChars[(n % 10) + 1]>>

\* ------------------------------------------------------------- _parse_diff
SkipsSigns(line) == StartsWith(line, <<"+">>) \/ StartsWith(line, <<"-">>)

\* Line 34: line.startswith(("---", "+++", "//"))
IsSkipped(line) ==
    \/ StartsWith(line, <<"-", "-", "-">>)
    \/ StartsWith(line, <<"+", "+", "+">>)
    \/ StartsWith(line, <<"/", "/">>)

\* Lines 39-44: the new-file start of a hunk header
NewStart(line) ==
    LET new_index == Split(line, " ")[3]
    IN  IF Contains(new_index, ",")
        THEN IntOf(Split(Tail(new_index), ",")[1])
        ELSE IntOf(Tail(new_index))

\* Lines 33-50: the loop over lines[4:], then the flush of the open annotation.
\* `open` is <<>> or <<active_annotation>>.
RECURSIVE ParseLines(_, _, _)
ParseLines(lines, anns, open) ==
    IF lines = <<>> THEN [error |-> FALSE, annotations |-> anns \o open]
    ELSE LET line == Head(lines)
         IN  IF IsSkipped(line) THEN ParseLines(Tail(lines), anns, open)
             ELSE IF StartsWith(line, <<"@", "@">>)
             THEN ParseLines(Tail(lines), anns \o open,
                             <<[start |-> NewStart(line), message |-> <<>>]>>)
             ELSE IF StartsWith(line, <<"+">>) \/ StartsWith(line, <<"-">>)
             THEN IF open = <<>> THEN [error |-> TRUE, annotations |-> <<>>]
                  ELSE ParseLines(Tail(lines), anns,
                                  <<[open[1] EXCEPT !.message = Append(@, line)]>>)
             ELSE ParseLines(Tail(lines), anns, open)

\* Line 51: annotations.sort(key=lambda a: a.start), stable and ascending
RECURSIVE InsertByStart(_, _)
InsertByStart(a, lst) ==
    IF lst = <<>> THEN <<a>>
    ELSE IF a.start <= Head(lst).start THEN <<a>> \o lst
    ELSE <<Head(lst)>> \o InsertByStart(a, Tail(lst))
RECURSIVE SortByStart(_)
SortByStart(lst) ==
    IF lst = <<>> THEN <<>>
    ELSE InsertByStart(Head(lst), SortByStart(Tail(lst)))

\* _parse_diff
ParseDiff(lines) ==
    LET r == ParseLines(PyDrop(lines, 4), <<>>, <<>>)
    IN  [r EXCEPT !.annotations = SortByStart(@)]

\* --------------------------------------------------- _annotate_file_message
\* f"{active_index}:{line}"
Tagged(n, line) == [src |-> "diff", num |-> n, line |-> line]

\* Lines 71-83: the loop over annotation.message; st = [ai, out, i_minus],
\* i_minus = -1 for None
RECURSIVE WalkMessage(_, _, _)
WalkMessage(msg, start, st) ==
    IF msg = <<>> THEN st
    ELSE LET line == Head(msg)
             sign == line[1]
         IN  IF sign = "+"
             THEN WalkMessage(Tail(msg), start,
                      [ai |-> st.ai + 1, out |-> Append(st.out, Tagged(st.ai, line)),
                       i_minus |-> -1])
             ELSE IF sign = "-"
             THEN LET im == IF st.i_minus = -1 THEN 0 ELSE st.i_minus
                  IN  WalkMessage(Tail(msg), start,
                          [ai |-> st.ai, out |-> Append(st.out, Tagged(start + im, line)),
                           i_minus |-> im + 1])
             ELSE WalkMessage(Tail(msg), start, st)

\* Lines 62-83: one iteration of the loop over annotations
AnnotateOne(msg, ai, out, annotation) ==
    LET filled == IF ai < annotation.start
                  THEN out \o PySlice(msg, ai, annotation.start)
                  ELSE out
        top == annotation.start = 0
    IN  WalkMessage(annotation.message, annotation.start,
                    [ai |-> IF top THEN 1 ELSE annotation.start,
                     out |-> IF top THEN Append(filled, msg[1]) ELSE filled,
                     i_minus |-> -1])

\* --------------------------------------------------------- inputs (SpecDiff)
\* An edit script turns the old file into the new one, op by op:
\*   "K" keep a line, "D" delete a line, "A" add a line,
\*   "Dm" delete a line whose text begins "--", "Ap" add one that begins "++"
Ops == {"K", "D", "A", "Dm", "Ap"}
InOld(op) == op \in {"K", "D", "Dm"}
InNew(op) == op \in {"K", "A", "Ap"}
IsChange(op) == op # "K"
\* As diff writes a change: the removed lines of a run before the added ones
Canonical(ops) ==
    \A i \in 1..(Len(ops) - 1) : ~(ops[i] \in {"A", "Ap"} /\ ops[i + 1] \in {"D", "Dm"})
Scripts == {ops \in UNION {[1..n -> Ops] : n \in 0..MaxOps} : Canonical(ops)}
ContextOptions == {0, 1}

OldIndex(ops, i) == Cardinality({j \in 1..i : InOld(ops[j])})
NewIndex(ops, i) == Cardinality({j \in 1..i : InNew(ops[j])})
\* The text of the line op i is about; every line of a file is distinct
TextOf(ops, i) ==
    CASE ops[i] = "K" -> <<"k">> \o StrOf(OldIndex(ops, i))
      [] ops[i] = "D" -> <<"o">> \o StrOf(OldIndex(ops, i))
      [] ops[i] = "Dm" -> <<"-", "-">> \o StrOf(OldIndex(ops, i))
      [] ops[i] = "A" -> <<"n">> \o StrOf(NewIndex(ops, i))
      [] ops[i] = "Ap" -> <<"+", "+">> \o StrOf(NewIndex(ops, i))
NewFile(ops) ==
    Flatten([i \in 1..Len(ops) |-> IF InNew(ops[i]) THEN <<TextOf(ops, i)>> ELSE <<>>])
OldFile(ops) ==
    Flatten([i \in 1..Len(ops) |-> IF InOld(ops[i]) THEN <<TextOf(ops, i)>> ELSE <<>>])

\* git diff -U<ctx>: a hunk is a maximal run of ops that are changes or lie
\* within ctx lines of one
InHunk(ops, ctx, i) ==
    \E j \in 1..Len(ops) : IsChange(ops[j]) /\ i - j <= ctx /\ j - i <= ctx
HunkStarts(ops, ctx) ==
    {i \in 1..Len(ops) : InHunk(ops, ctx, i) /\ (i = 1 \/ ~InHunk(ops, ctx, i - 1))}
HunkEnd(ops, ctx, lo) ==
    CHOOSE hi \in lo..Len(ops) :
        /\ \A i \in lo..hi : InHunk(ops, ctx, i)
        /\ hi = Len(ops) \/ ~InHunk(ops, ctx, hi + 1)
Range(start, count) ==
    StrOf(start) \o (IF count = 1 THEN <<>> ELSE <<",">> \o StrOf(count))
HunkHeader(ops, lo, hi) ==
    LET oc == Cardinality({i \in lo..hi : InOld(ops[i])})
        nc == Cardinality({i \in lo..hi : InNew(ops[i])})
        os == OldIndex(ops, lo - 1) + (IF oc = 0 THEN 0 ELSE 1)
        ns == NewIndex(ops, lo - 1) + (IF nc = 0 THEN 0 ELSE 1)
    IN  <<"@", "@", " ", "-">> \o Range(os, oc) \o <<" ", "+">> \o Range(ns, nc)
        \o <<" ", "@", "@">>
HunkLine(ops, i) ==
    (IF ops[i] = "K" THEN <<" ">> ELSE IF InOld(ops[i]) THEN <<"-">> ELSE <<"+">>)
    \o TextOf(ops, i)
HunkText(ops, ctx, lo) ==
    LET hi == HunkEnd(ops, ctx, lo)
    IN  <<HunkHeader(ops, lo, hi)>> \o [i \in 1..(hi - lo + 1) |-> HunkLine(ops, lo + i - 1)]
FileHeader ==
    << <<"d", "i", "f", "f">>, <<"i", "n", "d", "e", "x">>,
       <<"-", "-", "-", " ", "a">>, <<"+", "+", "+", " ", "b">> >>
\* The text of the diff, as its lines; empty when nothing changed
DiffText(ops, ctx) ==
    IF \A i \in 1..Len(ops) : ~IsChange(ops[i]) THEN <<>>
    ELSE FileHeader \o
         Flatten([i \in 1..Len(ops) |->
                    IF i \in HunkStarts(ops, ctx) THEN HunkText(ops, ctx, i) ELSE <<>>])

\* A malformed diff: a '+' or '-' line between the header and the first hunk
StrayOptions == {"", "+", "-"}
WithStray(text, sign) ==
    IF sign = "" THEN text
    ELSE PyTake(text, 4) \o << <<sign, "s">> >> \o PyDrop(text, 4)

\* What _read_file returns for the new file as git stores it, every line
\* ended by "\n": text.split("\n"), the lines and a last empty string
ReadLines(ops) == Append(NewFile(ops), <<>>)

\* The file message of get_code_message: the path, the numbered entries of
\* what _read_file returned, and the closing ""
Listing(ops) ==
    <<[src |-> "path", num |-> 0, line |-> <<"f">>]>>
    \o [i \in 1..Len(ReadLines(ops)) |-> [src |-> "file", num |-> i, line |-> ReadLines(ops)[i]]]
    \o <<[src |-> "end", num |-> 0, line |-> <<>>]>>

\* ---------------------------------------------------------------- SpecDiff
InitDiff ==
    /\ IdleApply
    /\ IdleWrite
    /\ d_pc = "parse"
    /\ d_ops \in Scripts
    /\ d_ctx \in ContextOptions
    /\ d_stray \in (IF DiffText(d_ops, d_ctx) = <<>> THEN {""} ELSE StrayOptions)
    /\ diff = WithStray(DiffText(d_ops, d_ctx), d_stray)
    /\ annotations = <<>>
    /\ code_message = Listing(d_ops)
    /\ d_k = 0
    /\ active_index = 0
    /\ annotated_message = <<>>

\* _parse_diff returns its annotations; _annotate_file_message is entered
D_Parse ==
    /\ UNCHANGED <<varsA, varsW>>
    /\ d_pc = "parse"
    /\ ~ParseDiff(diff).error
    /\ annotations' = ParseDiff(diff).annotations
    /\ d_pc' = "annotate"
    /\ d_k' = 1
    /\ active_index' = 0
    /\ annotated_message' = <<>>
    /\ UNCHANGED <<d_ops, d_ctx, d_stray, diff, code_message>>

\* Lines 45-47: _parse_diff raises UserError("Invalid diff")
D_ParseRaises ==
    /\ UNCHANGED <<varsA, varsW>>
    /\ d_pc = "parse"
    /\ ParseDiff(diff).error
    /\ d_pc' = "error"
    /\ UNCHANGED <<d_ops, d_ctx, d_stray, diff, annotations, code_message, d_k, active_index,
                   annotated_message>>

\* Lines 61-83: one annotation is woven in
D_AnnotateOne ==
    /\ UNCHANGED <<varsA, varsW>>
    /\ d_pc = "annotate"
    /\ d_k <= Len(annotations)
    /\ LET st == AnnotateOne(code_message, active_index, annotated_message, annotations[d_k])
       IN  /\ active_index' = st.ai
           /\ annotated_message' = st.out
    /\ d_k' = d_k + 1
    /\ UNCHANGED <<d_pc, d_ops, d_ctx, d_stray, diff, annotations, code_message>>

\* Lines 84-87: the rest of the listing is copied and the result returned
D_Finish ==
    /\ UNCHANGED <<varsA, varsW>>
    /\ d_pc = "annotate"
    /\ d_k > Len(annotations)
    /\ annotated_message' =
         IF active_index < Len(code_message)
         THEN annotated_message \o PyDrop(code_message, active_index)
         ELSE annotated_message
    /\ d_pc' = "done"
    /\ UNCHANGED <<d_ops, d_ctx, d_stray, diff, annotations, code_message, d_k, active_index>>

NextDiff ==
    \/ D_Parse
    \/ D_ParseRaises
    \/ D_AnnotateOne
    \/ D_Finish

SpecDiff == InitDiff /\ [][NextDiff]_vars

\* ------------------------------------------------- reference definitions
\* Two changes overlap when their inclusive ranges share a point
RangesOverlap(c1, c2) ==
    /\ c1.first_changed_line <= c2.last_changed_line
    /\ c2.first_changed_line <= c1.last_changed_line
HasOverlap(chs) ==
    \E i, j \in 1..Len(chs) : i < j /\ RangesOverlap(chs[i], chs[j])

RECURSIVE SumSeq(_)
SumSeq(ns) == IF ns = <<>> THEN 0 ELSE Head(ns) + SumSeq(Tail(ns))
MaxSeq(ns) == CHOOSE m \in {ns[i] : i \in 1..Len(ns)} : \A i \in 1..Len(ns) : ns[i] <= m
MinSeq(ns) == CHOOSE m \in {ns[i] : i \in 1..Len(ns)} : \A i \in 1..Len(ns) : ns[i] >= m

Lasts(chs) == [i \in 1..Len(chs) |-> chs[i].last_changed_line]
Firsts(chs) == [i \in 1..Len(chs) |-> chs[i].first_changed_line]
\* Lines a Replace/Delete range names
RangeLines(c) ==
    IF c.action = "Insert" THEN 0
    ELSE Floor2(c.last_changed_line) - Floor2(c.first_changed_line) + 1
CodeCount(c) == Len(c.code_lines)

\* The highest boundary of a list, rounded up, whatever its order
HighestLine(chs) == Ceil2(MaxSeq(Lasts(chs)))
\* The buffer the changes address: the input, extended by empty lines when
\* the highest change lies past its end
AddressedLines(lines, chs) ==
    lines \o EmptyLines(Max(0, HighestLine(chs) - 1 - Len(lines)))

\* All changes applied at once against the numbering of buffer P
SimApply(P, chs) ==
    LET top == Max(Len(P), Floor2(MaxSeq(Lasts(chs))))
        Cover(i) == {n \in 1..Len(chs) :
                        /\ chs[n].action # "Insert"
                        /\ chs[n].first_changed_line <= 2 * i
                        /\ 2 * i <= chs[n].last_changed_line}
        Piece(i) ==
            IF Cover(i) # {}
            THEN LET c == chs[CHOOSE n \in Cover(i) : TRUE]
                 IN  IF c.first_changed_line = 2 * i /\ c.action = "Replace"
                     THEN c.code_lines ELSE <<>>
            ELSE IF i <= Len(P) THEN <<P[i]>> ELSE <<>>
        Ins(k) ==
            LET at == {n \in 1..Len(chs) :
                         chs[n].action = "Insert" /\ chs[n].first_changed_line = 2 * k + 1}
            IN  IF at = {} THEN <<>> ELSE chs[CHOOSE n \in at : TRUE].code_lines
    IN  Flatten([j \in 1..(top + 1) |->
                   Ins(j - 1) \o (IF j <= top THEN Piece(j) ELSE <<>>)])

\* ------------------------------------------------------------------ claims

\* C1: a list that reaches the loop in descending order fails with the
\* overlap error exactly when two of its changes have overlapping ranges: an
\* overlapping list never returns a buffer, a list without overlap never raises.
C1_OverlapRaises ==
    /\ (a_pc = "returned" /\ changes # <<>>) => ~HasOverlap(changes)
    /\ a_pc = "raised" => HasOverlap(changes)
    /\ (a_pc = "loop" /\ a_i > Len(changes)) => ~HasOverlap(changes)

C1_Witness ==
    /\ a_pc = "raised"
    /\ Len(changes) = 3
    /\ a_i = 3
    /\ ~RangesOverlap(changes[1], changes[2])
    /\ RangesOverlap(changes[2], changes[3])
    /\ new_code_lines # a_padded

\* C3 as stated: the returned buffer has length L - (lines of Replace/Delete
\* ranges) + (code_lines supplied), with L the length of the input buffer.
C3_LengthOfInput ==
    (a_pc = "returned" /\ changes # <<>>) =>
        Len(new_code_lines) =
            Len(a_file_lines) - SumSeq([i \in 1..Len(changes) |-> RangeLines(changes[i])]) + SumSeq([i \in 1..Len(changes) |-> CodeCount(changes[i])])

\* C3 amended: the length is counted from the buffer the changes address
\* (the input extended by empty lines to largest_changed_line - 1) and only
\* range lines that exist in it are removed; the lines before the lowest
\* first_changed_line and after the highest last_changed_line are the input's.
C3_Length ==
    (a_pc = "returned" /\ changes # <<>>) =>
        LET L == Len(a_file_lines)
            P == Max(L, HighestLine(changes) - 1)
            Within(c) == IF c.action = "Insert" THEN 0
                         ELSE Min(Floor2(c.last_changed_line), P)
                              - Floor2(c.first_changed_line) + 1
            pre == Min(L, Floor2(MinSeq(Firsts(changes)) - 1))
            suf == Max(0, L - Floor2(MaxSeq(Lasts(changes))))
            n == Len(new_code_lines)
        IN  /\ n = P - SumSeq([i \in 1..Len(changes) |-> Within(changes[i])]) + SumSeq([i \in 1..Len(changes) |-> CodeCount(changes[i])])
            /\ SubSeq(new_code_lines, 1, pre) = SubSeq(a_file_lines, 1, pre)
            /\ SubSeq(new_code_lines, n - suf + 1, n) = SubSeq(a_file_lines, L - suf + 1, L)

C3_Witness ==
    /\ a_pc = "returned"
    /\ Len(changes) = 3
    /\ HighestLine(changes) - 1 > Len(a_file_lines)
    /\ \E i \in 1..3 : changes[i].action = "Replace"
    /\ \E i \in 1..3 : changes[i].action = "Delete"

\* C4: applied one at a time in descending order with unadjusted line
\* numbers, the changes give the buffer that applying them all at once
\* against the original numbering gives; when a change is applied, every
\* line at or below its last_changed_line still holds its original content.
C4_SequentialIsSimultaneous ==
    LET P == AddressedLines(a_file_lines, changes)
    IN  /\ (a_pc = "returned" /\ changes # <<>>) => new_code_lines = SimApply(P, changes)
        /\ (a_pc = "loop" /\ a_i <= Len(changes)
                /\ ~Overlaps(changes[a_i], min_changed_line)) =>
              \A j \in 1..Min(Floor2(changes[a_i].last_changed_line), Len(P)) :
                  j <= Len(new_code_lines) /\ new_code_lines[j] = P[j]

C4_Witness ==
    /\ a_pc = "loop"
    /\ Len(changes) = 3
    /\ a_i = 3
    /\ ~Overlaps(changes[3], min_changed_line)
    /\ Len(new_code_lines) # Len(a_file_lines)
    /\ changes[3].action = "Replace"

\* The last prompt, when the last step asked one
LastStepAsked == Len(prompts) = w_last.pre.asked + 1
LastAnswer == prompts[Len(prompts)]
NothingMoved ==
    /\ files = w_last.pre.files
    /\ disk = w_last.pre.disk
    /\ file_lines = w_last.pre.file_lines

\* C2: when a file group reaches the staleness check and the fresh read
\* differs from the cached snapshot, the prompt (default no) is issued; on no
\* the applicator returns None, nothing is applied and the disk is as it was;
\* the file changes on disk only on yes.  When disk and snapshot are equal no
\* prompt is issued.
C2_StaleNeedsYes ==
    (/\ w_last.kind = "group"
     /\ w_last.resolved # <<>>
     /\ w_last.pre.file_lines[w_last.file].cached
     /\ w_last.pre.disk[w_last.file].exists) =>
        LET p == w_last.file
            stale == w_last.pre.file_lines[p].lines # w_last.pre.disk[p].lines
        IN  IF stale
            THEN /\ LastStepAsked
                 /\ LastAnswer.about = "stale" /\ LastAnswer.file = p
                 /\ ~LastAnswer.default_yes
                 /\ ~LastAnswer.answer => (w_last.outcome = "aborted" /\ NothingMoved)
                 /\ disk[p] # w_last.pre.disk[p] => LastAnswer.answer
            ELSE Len(prompts) = w_last.pre.asked

C2_Witness ==
    /\ w_last.kind = "group"
    /\ w_last.resolved # <<>>
    /\ w_last.outcome = "aborted"
    /\ LastStepAsked /\ ~LastAnswer.answer
    /\ disk[w_last.file].lines = EditedSince(w_last.file)
    /\ \E j \in 1..Len(prompts) - 1 : prompts[j].about = "stale" /\ prompts[j].answer

\* C5 as stated: every removal of a file from disk and every overwrite of disk
\* content that differs from the snapshot, by DeleteFile, RenameFile or a file
\* group, comes after a yes to a prompt about that file.
C5_AllKindsConfirmed ==
    \A e \in w_events : e.kind \in {"DeleteFile", "RenameFile", "group"} => e.confirmed

\* C5 amended: that holds of DeleteFile and of the Insert/Replace/Delete
\* groups; RenameFile asks nothing.
C5_DeleteAndGroupsConfirmed ==
    /\ \A e \in w_events : e.kind \in {"DeleteFile", "group"} => e.confirmed
    /\ w_last.kind \in {"DeleteFile", "group"} =>
         LET p == w_last.file
             was == w_last.pre.disk[p]
             cache == w_last.pre.file_lines[p]
         IN  (/\ was.exists
              /\ disk[p] # was
              /\ ~disk[p].exists \/ ~cache.cached \/ cache.lines # was.lines)
             => (LastStepAsked /\ LastAnswer.file = p /\ LastAnswer.answer)

C5_Witness ==
    /\ \E e \in w_events : e.kind = "DeleteFile" /\ e.confirmed
    /\ \E e \in w_events : e.kind = "group" /\ e.confirmed
    /\ w_pc = "done"

\* --- C6: the batches the claim is about
IsEdit(c) == c.action \in {"Insert", "Replace", "Delete"}
RenameAt(r) ==
    /\ r \in 1..Len(code_changes)
    /\ code_changes[r].action = "RenameFile"
    /\ \A j \in 1..Len(code_changes) : j # r =>
         /\ IsEdit(code_changes[j])
         /\ code_changes[j].file = (IF j < r THEN code_changes[r].file ELSE code_changes[r].name)
    /\ Len(code_changes) > 1
EditsAround(r) ==
    SubSeq(code_changes, 1, r - 1) \o SubSeq(code_changes, r + 1, Len(code_changes))
EditedLines(old, r) ==
    SimApply(AddressedLines(Snapshot[old], EditsAround(r)), EditsAround(r))

\* C6: a batch of RenameFile old->new and edits of that file (addressed to
\* old before the rename, to new after it), on a tracked old file that is on
\* disk, with edits that do not overlap and survive conflict resolution and do
\* not empty the file, ends with new tracked and holding old's cached lines
\* with all edits applied, and old untracked and gone.
C6_RenameThenEdits ==
    \A r \in 1..Len(code_changes) :
        (/\ w_pc \in {"done", "error"}
         /\ RenameAt(r)
         /\ disk0[code_changes[r].file].exists
         /\ ~HasOverlap(EditsAround(r))
         /\ ~w_dropped
         /\ EditedLines(code_changes[r].file, r) # <<>>) =>
            LET old == code_changes[r].file
                new == code_changes[r].name
            IN  /\ w_pc = "done"
                /\ new \in files /\ old \notin files
                /\ ~disk[old].exists
                /\ disk[new] = OnDisk(EditedLines(old, r))

\* C7: a group of surviving edits for a file that is not tracked when the
\* group is processed fails with the not-in-context error, leaves the file on
\* disk as it was and ends the batch.
C7_UntrackedRaisesNotInContext ==
    (/\ w_last.kind = "group"
     /\ w_last.resolved # <<>>
     /\ ~w_last.tracked) =>
        /\ w_pc = "error"
        /\ w_error = "NotInContext"
        /\ disk[w_last.file] = w_last.pre.disk[w_last.file]

\* C8 as stated: after a filesystem failure in one file's group the groups
\* of the other files are still processed.
C8_OtherGroupsContinue ==
    (w_last.kind = "group" /\ w_last.outcome = "FileNotFoundError") =>
        \A j \in 1..Len(file_changes) :
            (file_changes[j].path # w_last.file /\ file_changes[j].changes # <<>>) => j < w_g

\* C8 amended: a filesystem failure leaves write_changes_to_files at once;
\* the failing file is not written and no later group is processed.
C8_FailureEndsBatch ==
    /\ w_error # "" => w_pc = "error"
    /\ (w_last.kind = "group" /\ w_last.outcome = "FileNotFoundError") =>
         /\ w_pc = "error"
         /\ file_changes[w_g].path = w_last.file
         /\ NothingMoved
         /\ \A j \in (w_g + 1)..Len(file_changes) : w_writes[file_changes[j].path] = 0

C8_Witness ==
    /\ w_last.kind = "group" /\ w_last.outcome = "FileNotFoundError"
    /\ w_g < Len(file_changes)
    /\ file_changes[w_g + 1].changes # <<>>
    /\ file_changes[w_g + 1].path \in files
    /\ disk[file_changes[w_g + 1].path] = OnDisk(Snapshot[file_changes[w_g + 1].path])

\* C9: DeleteFile of a path that is not on disk asks nothing and changes
\* nothing; of a path on disk it asks (default no), and on no changes nothing,
\* on yes removes the path from the registry and from disk and leaves the
\* cached buffers alone.
C9_DeleteFileFrame ==
    w_last.kind = "DeleteFile" =>
        LET p == w_last.file
        IN  IF ~w_last.pre.disk[p].exists
            THEN Len(prompts) = w_last.pre.asked /\ NothingMoved
            ELSE /\ LastStepAsked
                 /\ LastAnswer.about = "delete" /\ LastAnswer.file = p
                 /\ ~LastAnswer.default_yes
                 /\ IF LastAnswer.answer
                    THEN /\ files = w_last.pre.files \ {p}
                         /\ disk = [w_last.pre.disk EXCEPT ![p] = NoFile]
                         /\ file_lines = w_last.pre.file_lines
                    ELSE NothingMoved

C9_Witness ==
    /\ w_last.kind = "DeleteFile"
    /\ w_last.outcome = "deleted"
    /\ w_last.file \in w_last.pre.files
    /\ file_lines[w_last.file].cached
    /\ \E j \in 1..Len(prompts) - 1 : prompts[j].about = "delete" /\ ~prompts[j].answer

\* --- C10: where an added line stands in the new file
PositionInNew(text) == CHOOSE i \in 1..Len(NewFile(d_ops)) : NewFile(d_ops)[i] = text
AddedTexts == {TextOf(d_ops, i) : i \in {j \in 1..Len(d_ops) : d_ops[j] \in {"A", "Ap"}}}
Emitted(sign, text) ==
    \E n \in 1..Len(annotated_message) :
        annotated_message[n].src = "diff" /\ annotated_message[n].line = <<sign>> \o text

\* C10: for a diff without context lines, every added line is emitted, tagged
\* with its position in the new file, in place of the listing entry of that
\* number.
C10_AddedLinesAtNewPosition ==
    (d_pc = "done" /\ d_ctx = 0) =>
        /\ \A text \in AddedTexts : Emitted("+", text)
        /\ \A n \in 1..Len(annotated_message) :
             LET e == annotated_message[n]
             IN  (e.src = "diff" /\ e.line[1] = "+") =>
                     /\ e.num = PositionInNew(Tail(e.line))
                     /\ ~\E m \in 1..Len(annotated_message) :
                            annotated_message[m].src = "file" /\ annotated_message[m].num = e.num

\* --- C11: where a removed line stood in the old file
RemovedOps == {i \in 1..Len(d_ops) : d_ops[i] \in {"D", "Dm"}}
EmittedAt(sign, text, num) ==
    \E n \in 1..Len(annotated_message) :
        /\ annotated_message[n].src = "diff"
        /\ annotated_message[n].line = <<sign>> \o text
        /\ annotated_message[n].num = num

\* C11: for a diff without context lines, every removed line is emitted,
\* tagged with the number it had in the old file.
C11_RemovedLinesAtOldPosition ==
    (d_pc = "done" /\ d_ctx = 0) =>
        \A i \in RemovedOps : EmittedAt("-", TextOf(d_ops, i), OldIndex(d_ops, i))

\* --- C12: the listing lines that stay
\* The number of '+' lines of an annotation
PlusCount(a) == Cardinality({n \in 1..Len(a.message) : a.message[n][1] = "+"})
SortedByStart(anns) ==
    \A k \in 1..(Len(anns) - 1) : anns[k].start <= anns[k + 1].start
NonOverlapping(anns) ==
    \A k \in 1..(Len(anns) - 1) : anns[k].start + PlusCount(anns[k]) <= anns[k + 1].start
\* The tags of the '+' lines of the output: the listing entries they replace
PlusTags ==
    {annotated_message[n].num :
        n \in {m \in 1..Len(annotated_message) :
                 annotated_message[m].src = "diff" /\ annotated_message[m].line[1] = "+"}}
\* msg without the entries whose index (from 0) is in skip
RECURSIVE Without(_, _, _)
Without(msg, i, skip) ==
    IF i > Len(msg) THEN <<>>
    ELSE (IF (i - 1) \in skip THEN <<>> ELSE <<msg[i]>>) \o Without(msg, i + 1, skip)
RECURSIVE ListingPart(_)
ListingPart(out) ==
    IF out = <<>> THEN <<>>
    ELSE (IF Head(out).src = "diff" THEN <<>> ELSE <<Head(out)>>) \o ListingPart(Tail(out))

C12_Output ==
    (d_pc = "done" /\ SortedByStart(annotations) /\ NonOverlapping(annotations)) =>
        /\ annotated_message[1] = code_message[1]
        /\ Cardinality({n \in 1..Len(annotated_message) :
                          annotated_message[n].src = "path"}) = 1
        /\ ListingPart(annotated_message) = Without(code_message, 1, PlusTags)

\* C12: for annotations in ascending, non-overlapping order the output begins
\* with the path line, holds it once, holds every listing line that no '+'
\* line replaced exactly once and in order, and the cursor never moves back.
C12_ListingKept ==
    /\ []C12_Output
    /\ [][active_index' >= active_index]_vars

\* A hunk with start 0, then a hunk with an added line
C12_Witness ==
    /\ d_pc = "done"
    /\ Len(annotations) >= 2
    /\ annotations[1].start = 0
    /\ PlusTags # {}
    /\ SortedByStart(annotations) /\ NonOverlapping(annotations)

\* --- C13: what _parse_diff returns for the hunks of the diff
Parsed == d_pc \in {"annotate", "done"}
NthHunk(k) ==
    CHOOSE lo \in HunkStarts(d_ops, d_ctx) :
        Cardinality({x \in HunkStarts(d_ops, d_ctx) : x <= lo}) = k
\* The new-file start the header of the hunk at lo gives
HunkNewStart(lo) ==
    LET hi == HunkEnd(d_ops, d_ctx, lo)
    IN  NewIndex(d_ops, lo - 1)
        + (IF \E i \in lo..hi : InNew(d_ops[i]) THEN 1 ELSE 0)
\* The added and removed lines of the hunk at lo, in diff order
HunkChanges(lo) ==
    LET hi == HunkEnd(d_ops, d_ctx, lo)
    IN  Flatten([i \in 1..(hi - lo + 1) |->
                   IF IsChange(d_ops[lo + i - 1]) THEN <<HunkLine(d_ops, lo + i - 1)>>
                   ELSE <<>>])

\* C13: _parse_diff returns one annotation per hunk, in ascending order of
\* start; its start is the new-file start of the hunk header and its message
\* is the hunk's added and removed lines, all of them, in diff order.
C13_OneAnnotationPerHunk ==
    Parsed =>
        /\ Len(annotations) = Cardinality(HunkStarts(d_ops, d_ctx))
        /\ SortedByStart(annotations)
        /\ \A k \in 1..Len(annotations) :
             /\ annotations[k].start = HunkNewStart(NthHunk(k))
             /\ annotations[k].message = HunkChanges(NthHunk(k))

\* --- C14: a '+' or '-' line before the first hunk header
IsHunkHeader(line) == StartsWith(line, <<"@", "@">>)
IsMarker(line) ==
    StartsWith(line, <<"-", "-", "-">>) \/ StartsWith(line, <<"+", "+", "+">>)
SignedBeforeHunk ==
    \E i \in 5..Len(diff) :
        /\ StartsWith(diff[i], <<"+">>) \/ StartsWith(diff[i], <<"-">>)
        /\ ~IsMarker(diff[i])
        /\ \A j \in 5..(i - 1) : ~IsHunkHeader(diff[j])

\* C14: when a '+' or '-' line that is no '---'/'+++' marker stands before the
\* first hunk header, _parse_diff raises the invalid-diff error and returns no
\* annotation.
C14_InvalidDiff ==
    (d_pc # "parse" /\ SignedBeforeHunk) =>
        /\ d_pc = "error"
        /\ annotations = <<>>
        /\ annotated_message = <<>>

C14_Witness ==
    /\ d_pc = "error"
    /\ SignedBeforeHunk
    /\ \E j \in 5..Len(diff) : IsHunkHeader(diff[j])

\* --- C15: when a file group is written
\* What the resolved changes of the last group make of the cached lines
GroupResult ==
    IF w_last.resolved = <<>> THEN <<>>
    ELSE SimApply(AddressedLines(w_last.pre.file_lines[w_last.file].lines, w_last.resolved),
                  w_last.resolved)

\* C15: a file group is written, as the whole new content of the file, exactly
\* when the applicator returns a non-empty list for a tracked file; on an
\* empty list or on None the disk is as it was; no group writes a file twice.
C15_WrittenWhenNonEmpty ==
    /\ \A p \in Paths : w_writes[p] <= 1
    /\ (w_last.kind = "group" /\ w_last.outcome = "written") =>
         /\ w_last.tracked
         /\ GroupResult # <<>>
         /\ disk = [w_last.pre.disk EXCEPT ![w_last.file] = OnDisk(GroupResult)]
    /\ (w_last.kind = "group" /\ w_last.outcome = "empty") =>
         /\ GroupResult = <<>>
         /\ NothingMoved
    /\ (w_last.kind = "group" /\ w_last.outcome = "aborted") =>
         /\ LastStepAsked /\ ~LastAnswer.answer
         /\ NothingMoved

\* Every line of the file removed: the result is empty and nothing is written
C15_Witness ==
    /\ w_last.kind = "group" /\ w_last.outcome = "empty"
    /\ w_last.resolved # <<>>
    /\ w_last.tracked
    /\ disk[w_last.file].exists /\ disk[w_last.file].lines # <<>>

\* --- C16: tail padding
Begun == a_pc \in {"loop", "raised", "returned"} /\ changes # <<>>

\* C16: with H the highest last_changed_line of the changes, rounded up, which
\* the first change in descending order carries, a buffer of length L with
\* H > L + 1 is extended by empty lines, and only by them, to length H - 1
\* before a change is applied, and is left as it is when H <= L + 1; an
\* Insert past the end of the file puts its code_lines after the padding.
C16_TailPadding ==
    Begun =>
        LET H == HighestLine(changes)
            L == Len(a_file_lines)
        IN  /\ Ceil2(changes[1].last_changed_line) = H
            /\ IF H > L + 1
               THEN /\ Len(a_padded) = H - 1
                    /\ SubSeq(a_padded, 1, L) = a_file_lines
                    /\ \A j \in (L + 1)..(H - 1) : a_padded[j] = ""
               ELSE a_padded = a_file_lines
            /\ (a_pc = "returned" /\ changes[1].action = "Insert" /\ H - 1 > L) =>
                 LET code == changes[1].code_lines
                     n == Len(new_code_lines)
                 IN  /\ n >= Len(code)
                     /\ SubSeq(new_code_lines, n - Len(code) + 1, n) = code
                     /\ Len(changes) = 1 => new_code_lines = a_padded \o code

\* An Insert past the end of the file, alone, has been applied
C16_Witness ==
    /\ a_pc = "returned"
    /\ Len(changes) = 1
    /\ changes[1].action = "Insert"
    /\ HighestLine(changes) - 1 > Len(a_file_lines)
    /\ Len(a_padded) > Len(a_file_lines)

\* --- C17: the cached buffers of the tracked files
\* Every file of fs has a buffer in fl that equals its content in d
FreshIn(fs, d, fl) ==
    \A p \in fs : fl[p].cached /\ d[p] = OnDisk(fl[p].lines)

\* C17: a directive handled by the first loop that finds every tracked file
\* with a cached buffer equal to its content on disk leaves it so.
C17_TrackedFilesCached ==
    (/\ w_last.kind \in {"CreateFile", "DeleteFile", "RenameFile", "queue"}
     /\ w_last.outcome \in {"created", "missing", "deleted", "declined", "renamed", "queued"}
     /\ FreshIn(w_last.pre.files, w_last.pre.disk, w_last.pre.file_lines)) =>
        FreshIn(files, disk, file_lines)

====
